---------------------------- MODULE Spec2Model ----------------------------
(***************************************************************************)
(* A model of Ncomms_fetch/ncomms_prev_month_fetch.py: the previous-month  *)
(* window, the Crossref page fetch with retry and backoff, pagination,     *)
(* item normalisation, abstract cleaning, keyword tagging and CSV export.  *)
(*                                                                         *)
(* Python strings are modelled as sequences of one-character strings, so   *)
(* that regular expressions, formatting and slicing act on characters.     *)
(***************************************************************************)
EXTENDS Integers, Sequences, FiniteSets, TLC

VARIABLES
    \* one call of fetch_crossref_page
    fpc, fattempt, requests, resps, sleeps, fresult,
    \* a run of main
    pc, offset, attempt, records, fetched, file, printed, err,
    \* previous_month_window
    today, window,
    \* clean_abstract
    raw, once, twice,
    \* build_keyword_patterns / tags_from_abstract
    keywords, whole_words, abstract, tags,
    \* normalisation of one item in get_crossref_records
    item, record

fetchVars  == <<fpc, fattempt, requests, resps, sleeps, fresult>>
mainVars   == <<pc, offset, attempt, records, fetched, file, printed, err>>
windowVars == <<today, window>>
cleanVars  == <<raw, once, twice>>
tagVars    == <<keywords, whole_words, abstract, tags>>
itemVars   == <<item, record>>
vars == <<fetchVars, mainVars, windowVars, cleanVars, tagVars, itemVars>>

\* A variable not set yet: None where a string or a list will be, NoValue
\* where a record will be.
None == "None"
NoValue == [t |-> "none"]

---------------------------------------------------------------------------
(* Config *)

ROWS_PER_PAGE == 100
MAX_RETRIES == 5
BACKOFF_SECONDS == 3

---------------------------------------------------------------------------
(* fetch_crossref_page *)

\* The statuses a response may carry in the model.
Statuses == {200, 204, 304, 400, 404, 429, 500, 502, 503, 504}

\* resp.status_code in (429, 502, 503, 504)
IsRetryable(status) == status \in {429, 502, 503, 504}

\* requests' Response.raise_for_status: raises HTTPError for 4xx and 5xx only.
RaisesForStatus(status) == 400 <= status /\ status < 600

\* A backoff that forgets the attempt number.
BackoffDelayFlat(n) == BACKOFF_SECONDS

\* time.sleep(BACKOFF_SECONDS * attempt)
BackoffDelay(n) == BACKOFF_SECONDS * n

\* A loop that runs once more: range(1, MAX_RETRIES + 2).
LastAttemptOneMore(n) == n = MAX_RETRIES + 1

\* for attempt in range(1, MAX_RETRIES + 1): attempt n is the last one
LastAttempt(n) == n = MAX_RETRIES

\* One iteration of the retry loop on a response with the given status:
\* what the call does next and the sleeps it makes on the way.
\*   "return"       return resp.json()
\*   "again"        the loop goes on to the next request
\*   "HTTPError"    resp.raise_for_status() raised
\*   "RuntimeError" the loop is over: Failed to fetch Crossref page after ...
FetchStep(n, status) ==
    IF status = 200
    THEN [kind |-> "return", slept |-> <<>>]
    ELSE IF IsRetryable(status)
    THEN [kind  |-> IF LastAttempt(n) THEN "RuntimeError" ELSE "again",
          slept |-> <<BackoffDelay(n)>>]
    ELSE IF RaisesForStatus(status)
    THEN [kind |-> "HTTPError", slept |-> <<>>]
    ELSE [kind  |-> IF LastAttempt(n) THEN "RuntimeError" ELSE "again",
          slept |-> <<>>]

\* The payloads a 200 response may carry in a single-call run: page ids.
Payloads == {"page_a", "page_b", "page_empty"}

FetchInit ==
    /\ fpc = "requesting"
    /\ fattempt = 1
    /\ requests = 0
    /\ resps = <<>>
    /\ sleeps = <<>>
    /\ fresult = NoValue

FetchIdle ==
    /\ fpc = "idle"
    /\ fattempt = 0
    /\ requests = 0
    /\ resps = <<>>
    /\ sleeps = <<>>
    /\ fresult = NoValue

\* status 200: return resp.json()
FetchReturn(payload) ==
    /\ fpc = "requesting"
    /\ FetchStep(fattempt, 200).kind = "return"
    /\ requests' = requests + 1
    /\ resps' = Append(resps, [status |-> 200, body |-> payload])
    /\ sleeps' = sleeps \o FetchStep(fattempt, 200).slept
    /\ fresult' = [kind |-> "return", payload |-> payload]
    /\ fpc' = "returned"
    /\ UNCHANGED fattempt

\* a response after which the loop issues the next request
FetchAgain(status) ==
    /\ fpc = "requesting"
    /\ FetchStep(fattempt, status).kind = "again"
    /\ requests' = requests + 1
    /\ resps' = Append(resps, [status |-> status, body |-> None])
    /\ sleeps' = sleeps \o FetchStep(fattempt, status).slept
    /\ fattempt' = fattempt + 1
    /\ UNCHANGED <<fpc, fresult>>

\* a response on which the call raises
FetchRaise(status) ==
    /\ fpc = "requesting"
    /\ FetchStep(fattempt, status).kind \in {"HTTPError", "RuntimeError"}
    /\ requests' = requests + 1
    /\ resps' = Append(resps, [status |-> status, body |-> None])
    /\ sleeps' = sleeps \o FetchStep(fattempt, status).slept
    /\ fresult' = [kind |-> FetchStep(fattempt, status).kind, payload |-> None]
    /\ fpc' = "raised"
    /\ UNCHANGED fattempt

\* requests.get itself raises (timeout, connection error): it propagates.
FetchRequestError ==
    /\ fpc = "requesting"
    /\ requests' = requests + 1
    /\ fresult' = [kind |-> "RequestException", payload |-> None]
    /\ fpc' = "raised"
    /\ UNCHANGED <<fattempt, resps, sleeps>>

---------------------------------------------------------------------------
(* Python strings, as sequences of characters *)

\* str.isspace for the characters of the model: \s of the re module.
IsSpace(c) == c \in {" ", "\t", "\n"}

RECURSIVE LStrip(_)
LStrip(s) ==
    IF s # <<>> /\ IsSpace(Head(s)) THEN LStrip(Tail(s)) ELSE s

RECURSIVE RStrip(_)
RStrip(s) ==
    IF s # <<>> /\ IsSpace(s[Len(s)]) THEN RStrip(SubSeq(s, 1, Len(s) - 1)) ELSE s

\* str.strip()
Strip(s) == RStrip(LStrip(s))

\* sep.join(parts) for a sequence of strings
RECURSIVE Join(_, _)
Join(sep, parts) ==
    IF parts = <<>> THEN <<>>
    ELSE IF Len(parts) = 1 THEN parts[1]
    ELSE parts[1] \o sep \o Join(sep, Tail(parts))

\* The index of the first c in s at or after i, or 0.
RECURSIVE IndexFrom(_, _, _)
IndexFrom(s, c, i) ==
    IF i > Len(s) THEN 0
    ELSE IF s[i] = c THEN i
    ELSE IndexFrom(s, c, i + 1)

---------------------------------------------------------------------------
(* clean_abstract *)

\* re.sub(r"<[^>]+>", " ", raw) from position i on: a match starts at a "<"
\* followed by at least one character that is not ">" and then a ">".
RECURSIVE SubTags(_, _)
SubTags(s, i) ==
    IF i > Len(s) THEN <<>>
    ELSE LET j == IndexFrom(s, ">", i + 1)
         IN  IF s[i] = "<" /\ j >= i + 2
             THEN <<" ">> \o SubTags(s, j + 1)
             ELSE <<s[i]>> \o SubTags(s, i + 1)

\* html.entities.html5, restricted to the names that can be written with
\* the letters of the model's strings (a b A B m p l t g and ";").
Html5 ==
    { << <<"a","m","p">>, <<"&">> >>,
      << <<"a","m","p",";">>, <<"&">> >>,
      << <<"l","t">>, <<"<">> >>,
      << <<"l","t",";">>, <<"<">> >>,
      << <<"g","t">>, <<">">> >>,
      << <<"g","t",";">>, <<">">> >>,
      << <<"a","m","a","l","g",";">>, <<"U+2A3F">> >>,
      << <<"a","p",";">>, <<"U+2248">> >>,
      << <<"g","a","m","m","a",";">>, <<"U+03B3">> >>,
      << <<"g","a","p",";">>, <<"U+2A86">> >>,
      << <<"g","g",";">>, <<"U+226B">> >>,
      << <<"g","g","g",";">>, <<"U+22D9">> >>,
      << <<"g","l",";">>, <<"U+2277">> >>,
      << <<"g","l","a",";">>, <<"U+2AA5">> >>,
      << <<"l","a","p",";">>, <<"U+2A85">> >>,
      << <<"l","a","t",";">>, <<"U+2AAB">> >>,
      << <<"l","g",";">>, <<"U+2276">> >>,
      << <<"l","l",";">>, <<"U+226A">> >>,
      << <<"m","a","l","t",";">>, <<"U+2720">> >>,
      << <<"m","a","p",";">>, <<"U+21A6">> >>,
      << <<"m","p",";">>, <<"U+2213">> >>,
      << <<"p","m",";">>, <<"U+00B1">> >> }

InHtml5(name) == \E e \in Html5 : e[1] = name

Html5Value(name) == (CHOOSE e \in Html5 : e[1] = name)[2]

\* [^\t\n\f <&#;]: a character of a named character reference
IsNameChar(c) == c \notin {"\t", "\n", "\f", " ", "<", "&", "#", ";"}

\* The length of the longest run of name characters of s from i, at most 32.
RECURSIVE NameRun(_, _, _)
NameRun(s, i, n) ==
    IF n < 32 /\ i <= Len(s) /\ IsNameChar(s[i]) THEN NameRun(s, i + 1, n + 1) ELSE n

\* html._replace_charref, named branch: the name itself, else its longest
\* proper prefix of at least two characters that is a name, else unchanged.
RECURSIVE LongestPrefix(_, _)
LongestPrefix(name, x) ==
    IF x <= 1 THEN <<"&">> \o name
    ELSE IF InHtml5(SubSeq(name, 1, x))
    THEN Html5Value(SubSeq(name, 1, x)) \o SubSeq(name, x + 1, Len(name))
    ELSE LongestPrefix(name, x - 1)

ReplaceCharref(name) ==
    IF InHtml5(name) THEN Html5Value(name) ELSE LongestPrefix(name, Len(name) - 1)

\* html._charref.sub(_replace_charref, s) from position i on. The numeric
\* alternatives of the pattern start with "#", which no string of the model
\* holds; the named one is &[^\t\n\f <&#;]{1,32};?
RECURSIVE SubCharrefs(_, _)
SubCharrefs(s, i) ==
    IF i > Len(s) THEN <<>>
    ELSE LET n == NameRun(s, i + 1, 0)
             semi == IF i + n + 1 <= Len(s) /\ s[i + n + 1] = ";" THEN 1 ELSE 0
         IN  IF s[i] = "&" /\ n >= 1
             THEN ReplaceCharref(SubSeq(s, i + 1, i + n + semi))
                      \o SubCharrefs(s, i + n + semi + 1)
             ELSE <<s[i]>> \o SubCharrefs(s, i + 1)

\* html.unescape
Unescape(s) == IF IndexFrom(s, "&", 1) = 0 THEN s ELSE SubCharrefs(s, 1)

\* re.sub(r"\s+", " ", txt): every run of whitespace becomes one space.
RECURSIVE CollapseSpaces(_, _)
CollapseSpaces(s, i) ==
    IF i > Len(s) THEN <<>>
    ELSE IF IsSpace(s[i])
    THEN IF i > 1 /\ IsSpace(s[i - 1])
         THEN CollapseSpaces(s, i + 1)
         ELSE <<" ">> \o CollapseSpaces(s, i + 1)
    ELSE <<s[i]>> \o CollapseSpaces(s, i + 1)

\* clean_abstract on a string
CleanAbstract(s) ==
    IF s = <<>> THEN <<>>
    ELSE Strip(CollapseSpaces(Unescape(SubTags(s, 1)), 1))

---------------------------------------------------------------------------
(* keyword logic *)

\* str.lower() on one character of the model's alphabet
LowerChar(c) ==
    CASE c = "A" -> "a"
      [] c = "B" -> "b"
      [] OTHER -> c

\* str.lower()
Lower(s) == [i \in 1..Len(s) |-> LowerChar(s[i])]

\* \w of the re module, on the model's alphabet
IsWordChar(c) == c \in {"a", "b", "A", "B", "m", "p", "l", "t", "g", "_"}

\* \b between s[p] and s[p+1] (p = 0 and p = Len(s) are the ends of s)
WordBoundary(s, p) ==
    LET before == p >= 1 /\ IsWordChar(s[p])
        after  == p + 1 <= Len(s) /\ IsWordChar(s[p + 1])
    IN  before # after

\* The literal text occurs in s right after position p, whatever the case (re.I).
OccursAt(text, s, p) ==
    /\ p + Len(text) <= Len(s)
    /\ Lower(SubSeq(s, p + 1, p + Len(text))) = Lower(text)

\* pat.search(s) for a compiled pattern [text, whole]:
\* re.escape(text) between two \b when whole, alone otherwise.
Search(pat, s) ==
    \E p \in 0..Len(s) :
        /\ OccursAt(pat.text, s, p)
        /\ pat.whole => WordBoundary(s, p) /\ WordBoundary(s, p + Len(pat.text))

\* build_keyword_patterns: an empty keyword is skipped, the others are stripped.
RECURSIVE build_keyword_patterns(_, _)
build_keyword_patterns(kws, whole) ==
    IF kws = <<>> THEN <<>>
    ELSE IF Head(kws) = <<>>
    THEN build_keyword_patterns(Tail(kws), whole)
    ELSE <<[text |-> Strip(Head(kws)), whole |-> whole]>>
             \o build_keyword_patterns(Tail(kws), whole)

Min(a, b) == IF a <= b THEN a ELSE b

\* hits: for kw, pat in zip(keywords, patterns): if pat.search(abstract)
RECURSIVE Hits(_, _, _, _)
Hits(abs, patterns, kws, i) ==
    IF i > Min(Len(kws), Len(patterns)) THEN <<>>
    ELSE (IF Search(patterns[i], abs) THEN <<kws[i]>> ELSE <<>>)
             \o Hits(abs, patterns, kws, i + 1)

\* Deduplicate while preserving order (case-insensitive key)
RECURSIVE Dedup(_, _)
Dedup(hits, seen) ==
    IF hits = <<>> THEN <<>>
    ELSE IF Lower(Head(hits)) \in seen
    THEN Dedup(Tail(hits), seen)
    ELSE <<Head(hits)>> \o Dedup(Tail(hits), seen \cup {Lower(Head(hits))})

\* tags_from_abstract
tags_from_abstract(abs, patterns, kws) ==
    IF abs = <<>> THEN <<>> ELSE Dedup(Hits(abs, patterns, kws, 1), {})

---------------------------------------------------------------------------
(* Date utilities: datetime.date as CPython computes it *)

MINYEAR == 1

IsLeap(y) == y % 4 = 0 /\ (y % 100 # 0 \/ y % 400 = 0)

DAYS_IN_MONTH == <<31, 28, 31, 30, 31, 30, 31, 31, 30, 31, 30, 31>>

DaysInMonth(y, m) == IF m = 2 /\ IsLeap(y) THEN 29 ELSE DAYS_IN_MONTH[m]

RECURSIVE DaysBeforeMonthPlain(_)
DaysBeforeMonthPlain(m) ==
    IF m <= 1 THEN 0 ELSE DaysBeforeMonthPlain(m - 1) + DAYS_IN_MONTH[m - 1]

\* _days_before_month
DaysBeforeMonth(y, m) ==
    DaysBeforeMonthPlain(m) + (IF m > 2 /\ IsLeap(y) THEN 1 ELSE 0)

\* _days_before_year
DaysBeforeYear(y) ==
    (y - 1) * 365 + ((y - 1) \div 4) - ((y - 1) \div 100) + ((y - 1) \div 400)

\* date.toordinal
Ymd2Ord(y, m, d) == DaysBeforeYear(y) + DaysBeforeMonth(y, m) + d

\* date.fromordinal (_ord2ymd)
Ord2Ymd(ord) ==
    LET n0   == ord - 1
        n400 == n0 \div 146097
        r400 == n0 % 146097
        n100 == r400 \div 36524
        r100 == r400 % 36524
        n4   == r100 \div 1461
        r4   == r100 % 1461
        n1   == r4 \div 365
        n    == r4 % 365
        year == n400 * 400 + 1 + n100 * 100 + n4 * 4 + n1
        leap == n1 = 3 /\ (n4 # 24 \/ n100 = 3)
        guess == (n + 50) \div 32
        prec == DaysBeforeMonthPlain(guess) + (IF guess > 2 /\ leap THEN 1 ELSE 0)
        month == IF prec > n THEN guess - 1 ELSE guess
        before == IF prec > n
                  THEN prec - (DAYS_IN_MONTH[month] + (IF month = 2 /\ leap THEN 1 ELSE 0))
                  ELSE prec
    IN  IF n1 = 4 \/ n100 = 4
        THEN [year |-> year - 1, month |-> 12, day |-> 31]
        ELSE [year |-> year, month |-> month, day |-> n - before + 1]

\* A non-negative integer in decimal
RECURSIVE Decimal(_)
Decimal(n) ==
    LET digit == <<"0", "1", "2", "3", "4", "5", "6", "7", "8", "9">>[(n % 10) + 1]
    IN  IF n < 10 THEN <<digit>> ELSE Decimal(n \div 10) \o <<digit>>

RECURSIVE ZeroPad(_, _)
ZeroPad(s, width) == IF Len(s) >= width THEN s ELSE ZeroPad(<<"0">> \o s, width)

\* f"{n:0{width}d}" for n >= 0
FormatInt(n, width) == ZeroPad(Decimal(n), width)

\* A month before that forgets the year when the month is January.
MinusOneDayNoRollover(d) ==
    [ok |-> TRUE,
     date |-> [year |-> d.year,
               month |-> IF d.month = 1 THEN 12 ELSE d.month - 1,
               day |-> DaysInMonth(d.year, IF d.month = 1 THEN 12 ELSE d.month - 1)]]

\* first_this_month - timedelta(days=1), for d the first of a month: the date
\* of the ordinal before, or OverflowError when there is none.
MinusOneDay(d) ==
    LET o == Ymd2Ord(d.year, d.month, d.day) - 1
    IN  IF o < 1
        THEN [ok |-> FALSE, exc |-> "OverflowError"]
        ELSE [ok |-> TRUE, date |-> Ord2Ymd(o)]

\* previous_month_window
previous_month_window(d) ==
    LET first_this_month == [year |-> d.year, month |-> d.month, day |-> 1]
        last_prev_month  == MinusOneDay(first_this_month)
    IN  IF ~last_prev_month.ok
        THEN [ok |-> FALSE, exc |-> last_prev_month.exc]
        ELSE LET last == last_prev_month.date
             IN  [ok    |-> TRUE,
                  start |-> [year |-> last.year, month |-> last.month, day |-> 1],
                  end   |-> last,
                  label |-> Decimal(last.year) \o <<"-">> \o FormatInt(last.month, 2)]

---------------------------------------------------------------------------
(* JSON values of a Crossref item, and Python's operations on them *)

JNull == [t |-> "null"]
JAbsent == [t |-> "absent"]
JStr(s) == [t |-> "str", s |-> s]
JInt(n) == [t |-> "int", n |-> n]
JList(l) == [t |-> "list", l |-> l]
\* d maps every key the code reads to a value; JAbsent is a key not present.
JDict(d) == [t |-> "dict", d |-> d]

Ok(v) == [ok |-> TRUE, v |-> v]
Raise(e) == [ok |-> FALSE, exc |-> e]

\* key in obj
HasKey(obj, k) == k \in DOMAIN obj.d /\ obj.d[k] # JAbsent

\* obj.get(k, default)
DictGet(obj, k, default) == IF HasKey(obj, k) THEN obj.d[k] ELSE default

\* bool(v)
Truthy(v) ==
    CASE v.t = "null" -> FALSE
      [] v.t = "str"  -> v.s # <<>>
      [] v.t = "int"  -> v.n # 0
      [] v.t = "list" -> v.l # <<>>
      [] v.t = "dict" -> \E k \in DOMAIN v.d : v.d[k] # JAbsent

\* sep.join(parts).strip() on Python values: join wants strings only.
JoinValues(parts) ==
    IF \E i \in 1..Len(parts) : parts[i].t # "str"
    THEN Raise("TypeError")
    ELSE Ok(JStr(Strip(Join(<<" ">>, [i \in 1..Len(parts) |-> parts[i].s]))))

\* v.strip() for a truthy v
StripValue(v) ==
    IF v.t = "str" THEN Ok(JStr(Strip(v.s))) ELSE Raise("AttributeError")

\* [p for p in parts if p]
RECURSIVE KeepTruthy(_)
KeepTruthy(parts) ==
    IF parts = <<>> THEN <<>>
    ELSE (IF Truthy(Head(parts)) THEN <<Head(parts)>> ELSE <<>>) \o KeepTruthy(Tail(parts))

---------------------------------------------------------------------------
(* iso_date_from_crossref_parts, extract_pub_date *)

\* f"{v:02d}" and the like: an int formats, None does not.
FormatPart(v, width) ==
    IF v.t = "int" /\ v.n >= 0 THEN Ok(FormatInt(v.n, width)) ELSE Raise("TypeError")

iso_date_from_crossref_parts(parts) ==
    IF parts.t # "list" THEN Raise("TypeError")
    ELSE LET p0 == parts.l[1]
         IN  IF p0.t # "list" THEN Raise("TypeError")
             ELSE IF p0.l = <<>> THEN Raise("IndexError")
             ELSE LET y == FormatPart(p0.l[1], 4)
                      m == FormatPart(IF Len(p0.l) >= 2 THEN p0.l[2] ELSE JInt(1), 2)
                      d == FormatPart(IF Len(p0.l) >= 3 THEN p0.l[3] ELSE JInt(1), 2)
                  IN  IF ~y.ok THEN y
                      ELSE IF ~m.ok THEN m
                      ELSE IF ~d.ok THEN d
                      ELSE Ok(JStr(y.v \o <<"-">> \o m.v \o <<"-">> \o d.v))

\* "k" in v, for the values the model gives a date field
Contains(v, k) ==
    CASE v.t = "dict" -> Ok(HasKey(v, k))
      [] v.t = "list" -> Ok(FALSE)
      [] v.t = "str"  -> Ok(FALSE)
      [] OTHER -> Raise("TypeError")

DateKeys == <<"published-online", "published-print", "issued">>

\* The loop of extract_pub_date from the i-th key on, then "created".
RECURSIVE ExtractFrom(_, _)
ExtractFrom(it, i) ==
    IF i > Len(DateKeys)
    THEN IF ~HasKey(it, "created") THEN Ok(JStr(<<>>))
         ELSE LET c == Contains(it.d["created"], "date-time")
              IN  IF ~c.ok THEN c
                  ELSE IF ~c.v THEN Ok(JStr(<<>>))
                  ELSE LET dt == it.d["created"].d["date-time"]
                       IN  IF dt.t = "str"
                           THEN Ok(JStr(SubSeq(dt.s, 1, Min(10, Len(dt.s)))))
                           ELSE Raise("TypeError")
    ELSE IF ~HasKey(it, DateKeys[i]) THEN ExtractFrom(it, i + 1)
    ELSE LET c == Contains(it.d[DateKeys[i]], "date-parts")
         IN  IF ~c.ok THEN c
             ELSE IF c.v /\ Truthy(it.d[DateKeys[i]].d["date-parts"])
             THEN iso_date_from_crossref_parts(it.d[DateKeys[i]].d["date-parts"])
             ELSE ExtractFrom(it, i + 1)

extract_pub_date(it) == ExtractFrom(it, 1)

---------------------------------------------------------------------------
(* format_author *)

format_author(auth_obj) ==
    IF auth_obj.t # "dict" THEN Raise("AttributeError")
    ELSE LET given   == DictGet(auth_obj, "given", JStr(<<>>))
             family  == DictGet(auth_obj, "family", JStr(<<>>))
             literal == DictGet(auth_obj, "literal", JStr(<<>>))
             name    == DictGet(auth_obj, "name", JStr(<<>>))
         IN  IF Truthy(given) \/ Truthy(family) THEN JoinValues(<<given, family>>)
             ELSE IF Truthy(name) THEN StripValue(name)
             ELSE IF Truthy(literal) THEN StripValue(literal)
             ELSE JoinValues(KeepTruthy(<<DictGet(auth_obj, "prefix", JStr(<<>>)),
                                          given, family,
                                          DictGet(auth_obj, "suffix", JStr(<<>>))>>))

---------------------------------------------------------------------------
(* get_crossref_records: the body of "for it in items" *)

\* (it.get("title") or [""])[0]
ItemTitle(it) ==
    LET v == DictGet(it, "title", JNull)
        w == IF Truthy(v) THEN v ELSE JList(<<JStr(<<>>)>>)
    IN  CASE w.t = "list" -> Ok(w.l[1])
          [] w.t = "str"  -> Ok(JStr(<<w.s[1]>>))
          [] w.t = "dict" -> Raise("KeyError")
          [] OTHER        -> Raise("TypeError")

\* clean_abstract(it.get("abstract", ""))
ItemAbstract(it) ==
    LET v == DictGet(it, "abstract", JStr(<<>>))
    IN  IF ~Truthy(v) THEN Ok(JStr(<<>>))
        ELSE IF v.t = "str" THEN Ok(JStr(CleanAbstract(v.s)))
        ELSE Raise("TypeError")

\* authors = it.get("author") or []; format_author(authors[-1]) if authors else ""
ItemLastAuthor(it) ==
    LET v == DictGet(it, "author", JNull)
    IN  IF ~Truthy(v) THEN Ok(JStr(<<>>))
        ELSE CASE v.t = "list" -> format_author(v.l[Len(v.l)])
               [] v.t = "str"  -> Raise("AttributeError")
               [] v.t = "dict" -> Raise("KeyError")
               [] OTHER        -> Raise("TypeError")

\* One item to one record, or the exception that ends the run.
NormalizeItem(it) ==
    LET title     == ItemTitle(it)
        abs       == ItemAbstract(it)
        pub_date  == extract_pub_date(it)
        last_auth == ItemLastAuthor(it)
    IN  IF ~title.ok THEN title
        ELSE IF ~abs.ok THEN abs
        ELSE IF ~pub_date.ok THEN pub_date
        ELSE IF ~last_auth.ok THEN last_auth
        ELSE Ok([publication_date |-> pub_date.v,
                 title       |-> title.v,
                 abstract    |-> abs.v,
                 doi         |-> DictGet(it, "DOI", JStr(<<>>)),
                 url         |-> DictGet(it, "URL", JStr(<<>>)),
                 last_author |-> last_auth.v])

\* records.append(...) for every item of a page, until one raises: the
\* records so far, and the exception if there is one.
RECURSIVE NormalizeAll(_, _)
NormalizeAll(items, acc) ==
    IF items = <<>> THEN [ok |-> TRUE, recs |-> acc, exc |-> None]
    ELSE LET r == NormalizeItem(Head(items))
         IN  IF r.ok THEN NormalizeAll(Tail(items), Append(acc, r.v))
             ELSE [ok |-> FALSE, recs |-> acc, exc |-> r.exc]

---------------------------------------------------------------------------
(* main: tagging and export *)

\* KEYWORDS, reduced to a short list of the same kind: no empty keyword, one
\* keyword listed twice (as "CRISPR" and "TALENs" are).
KEYWORDS == << <<"a">>, <<"b">>, <<"a">>, <<"a", " ", "b">> >>

WHOLE_WORDS == FALSE

\* rec["tags"] = "; ".join(tags_from_abstract(rec["abstract"], patterns, KEYWORDS))
TagRecord(rec, patterns) ==
    [publication_date |-> rec.publication_date,
     title       |-> rec.title,
     abstract    |-> rec.abstract,
     doi         |-> rec.doi,
     url         |-> rec.url,
     last_author |-> rec.last_author,
     tags        |-> JStr(Join(<<";", " ">>,
                          tags_from_abstract(rec.abstract.s, patterns, KEYWORDS)))]

\* The keys of a tagged record, in insertion order.
RecordKeys ==
    <<"publication_date", "title", "abstract", "doi", "url", "last_author", "tags">>

\* pd.DataFrame(records).columns: the keys of the records; none without records.
DataFrameColumns(recs) == IF recs = <<>> THEN <<>> ELSE RecordKeys

\* The characters of a publication date, in code point order.
CodeOrder ==
    <<"-", "0", "1", "2", "3", "4", "5", "6", "7", "8", "9", ":", "T", "Z">>

CharCode(c) == CHOOSE i \in 1..Len(CodeOrder) : CodeOrder[i] = c

\* a < b for strings
RECURSIVE StrLess(_, _)
StrLess(a, b) ==
    IF b = <<>> THEN FALSE
    ELSE IF a = <<>> THEN TRUE
    ELSE IF Head(a) = Head(b) THEN StrLess(Tail(a), Tail(b))
    ELSE CharCode(Head(a)) < CharCode(Head(b))

\* rec goes after every record of the sorted list that is not greater than it.
RECURSIVE InsertSorted(_, _)
InsertSorted(sorted, rec) ==
    IF sorted = <<>> THEN <<rec>>
    ELSE IF StrLess(rec.publication_date.s, Head(sorted).publication_date.s)
    THEN <<rec>> \o sorted
    ELSE <<Head(sorted)>> \o InsertSorted(Tail(sorted), rec)

\* df.sort_values(by="publication_date", kind="stable")
RECURSIVE SortStable(_, _)
SortStable(recs, acc) ==
    IF recs = <<>> THEN acc ELSE SortStable(Tail(recs), InsertSorted(acc, Head(recs)))

\* Steps 2 to 4 of main: the file df.to_csv(csv_name, index=False) writes.
ExportFile(recs, label) ==
    LET patterns == build_keyword_patterns(KEYWORDS, WHOLE_WORDS)
        tagged   == [i \in 1..Len(recs) |-> TagRecord(recs[i], patterns)]
        columns  == DataFrameColumns(tagged)
        rows     == IF \E i \in 1..Len(columns) : columns[i] = "publication_date"
                    THEN SortStable(tagged, <<>>)
                    ELSE tagged
    IN  [name   |-> <<"n", "c", "o", "m", "m", "s", "_">> \o label
                        \o <<".", "c", "s", "v">>,
         header |-> columns,
         rows   |-> rows]

\* payload.get("message", {}).get("items", [])
PayloadItems(payload) ==
    DictGet(DictGet(payload, "message", JDict([items |-> JAbsent])), "items", JList(<<>>))

---------------------------------------------------------------------------
(* main and get_crossref_records *)

\* The number of pages with items a run is followed through.
MaxPages == 3

Date(y, m, d) == [year |-> y, month |-> m, day |-> d]

DateParts(parts) == JDict([k \in {"date-parts"} |-> parts])

IntList(ns) == JList([i \in 1..Len(ns) |-> JInt(ns[i])])

\* An item: every key the code reads, JAbsent for a key the item lacks.
Item(title, abs, doi, author, online, print, issued, created) ==
    JDict(("title" :> title) @@ ("abstract" :> abs) @@ ("DOI" :> doi)
          @@ ("URL" :> doi) @@ ("author" :> author)   \* the URL is the DOI's
          @@ ("published-online" :> online) @@ ("published-print" :> print)
          @@ ("issued" :> issued) @@ ("created" :> created))

Author(given, family, name, literal, prefix) ==
    JDict(("given" :> given) @@ ("family" :> family) @@ ("name" :> name)
          @@ ("literal" :> literal) @@ ("prefix" :> prefix) @@ ("suffix" :> JAbsent))

AuthorFull == Author(JStr(<<"a">>), JStr(<<"b">>), JAbsent, JAbsent, JAbsent)

ItemA ==
    Item(JList(<<JStr(<<"t">>)>>), JStr(<<"<", "p", ">", "a", " ", "b", "<", "/", "p", ">">>),
         JStr(<<"1">>), JList(<<AuthorFull>>),
         JAbsent, JAbsent, DateParts(JList(<<IntList(<<2025, 12, 15>>)>>)), JAbsent)

ItemB ==
    Item(JList(<<JStr(<<"t">>)>>), JStr(<<"B">>),
         JStr(<<"2">>), JAbsent,
         DateParts(JList(<<IntList(<<2025, 12>>)>>)), JAbsent, JAbsent, JAbsent)

\* Crossref's "issued" of an item with no date: {"date-parts": [[null]]}
ItemNoDate ==
    Item(JList(<<JStr(<<"t">>)>>), JStr(<<"a">>),
         JStr(<<"3">>), JAbsent,
         JAbsent, JAbsent, DateParts(JList(<<JList(<<JNull>>)>>)), JAbsent)

\* The pages of items a 200 response may carry.
MainPages ==
    { <<ItemA>>, <<ItemB>>, <<ItemA, ItemB>>, <<ItemB, ItemA>>,
      <<ItemB, ItemA, ItemB>>, <<ItemA, ItemNoDate>>, <<ItemNoDate>> }

SeqsUpTo(S, n) == UNION {[1..k -> S] : k \in 0..n}

Message(m) == JDict([k \in {"message"} |-> m])

\* The payloads of a 200 response: a page of items, or no items at all.
MainPayloads ==
    {Message(JDict([items |-> JList(page)])) : page \in MainPages}
        \cup {Message(JDict([items |-> JList(<<>>)]))}
        \cup {Message(JAbsent), Message(JDict([items |-> JAbsent]))}

\* The dates the run is started on.
MainDates == {Date(2026, 1, 7), Date(2025, 3, 1)}

\* A loop that forgets to advance the offset.
NextOffsetSame(o) == o

\* offset += ROWS_PER_PAGE
NextOffset(o) == o + ROWS_PER_PAGE

\* An export that runs whatever the outcome, as from a finally block.
FileAfterAlways(outcome, recs, label) == ExportFile(recs, label)

\* The file main has written once get_crossref_records has ended with the
\* given outcome: to_csv is reached only when it returned.
FileAfter(outcome, recs, label) ==
    IF outcome = "return" THEN ExportFile(recs, label) ELSE NoValue

MainInit ==
    /\ pc = "start"
    /\ offset = 0
    /\ attempt = 0
    /\ records = <<>>
    /\ fetched = <<>>
    /\ file = NoValue
    /\ printed = <<>>
    /\ err = None

MainIdle ==
    /\ pc = "idle"
    /\ offset = 0
    /\ attempt = 0
    /\ records = <<>>
    /\ fetched = <<>>
    /\ file = NoValue
    /\ printed = <<>>
    /\ err = None

\* main up to the first request of the first page
Start ==
    /\ pc = "start"
    /\ window' = previous_month_window(today)
    /\ IF window'.ok
       THEN pc' = "requesting" /\ attempt' = 1 /\ err' = None
       ELSE pc' = "error" /\ attempt' = 0 /\ err' = window'.exc
    /\ UNCHANGED <<offset, records, fetched, file, printed, today>>

\* status 200 with items: the page is normalised and the next page requested
RespPage(payload) ==
    /\ pc = "requesting"
    /\ FetchStep(attempt, 200).kind = "return"
    /\ Truthy(PayloadItems(payload))
    /\ Len(fetched) < MaxPages
    /\ fetched' = Append(fetched, [offset |-> offset, items |-> PayloadItems(payload).l])
    /\ LET r == NormalizeAll(PayloadItems(payload).l, records)
       IN  /\ records' = r.recs
           /\ IF r.ok
              THEN /\ offset' = NextOffset(offset)
                   /\ attempt' = 1
                   /\ UNCHANGED <<pc, err, file>>
              ELSE /\ pc' = "error"
                   /\ err' = r.exc
                   /\ file' = FileAfter(r.exc, r.recs, window.label)
                   /\ UNCHANGED <<offset, attempt>>
    /\ UNCHANGED <<printed, today, window>>

\* status 200 with no items: the loop breaks, main tags, exports and prints
RespEmpty(payload) ==
    /\ pc = "requesting"
    /\ FetchStep(attempt, 200).kind = "return"
    /\ ~Truthy(PayloadItems(payload))
    /\ fetched' = Append(fetched, [offset |-> offset, items |-> <<>>])
    /\ file' = FileAfter("return", records, window.label)
    /\ printed' = <<Len(file'.rows)>>
    /\ pc' = "done"
    /\ UNCHANGED <<offset, attempt, records, err, today, window>>

\* a response after which fetch_crossref_page issues the next request
RespAgain(status) ==
    /\ pc = "requesting"
    /\ FetchStep(attempt, status).kind = "again"
    /\ attempt' = attempt + 1
    /\ UNCHANGED <<pc, offset, records, fetched, file, printed, err, today, window>>

\* a response on which fetch_crossref_page raises: the run is over
RespRaise(status) ==
    /\ pc = "requesting"
    /\ FetchStep(attempt, status).kind \in {"HTTPError", "RuntimeError"}
    /\ pc' = "error"
    /\ err' = FetchStep(attempt, status).kind
    /\ file' = FileAfter(FetchStep(attempt, status).kind, records, window.label)
    /\ UNCHANGED <<offset, attempt, records, fetched, printed, today, window>>

\* requests.get itself raises: the run is over
RequestError ==
    /\ pc = "requesting"
    /\ pc' = "error"
    /\ err' = "RequestException"
    /\ file' = FileAfter("RequestException", records, window.label)
    /\ UNCHANGED <<offset, attempt, records, fetched, printed, today, window>>

---------------------------------------------------------------------------
(* The inputs of the pure functions, and the steps that apply them *)

YearSpan == 3

\* The first and last representable years, the years around the four-digit
\* limit, a century that is no leap year, one that is, and recent years.
Years == {MINYEAR, MINYEAR + 1, 999, 1000, 1900, 2000} \cup (2023 .. 2023 + YearSpan)

Dates ==
    {d \in [year : Years, month : 1..12, day : 1..31] :
        d.day <= DaysInMonth(d.year, d.month)}

WindowInit == today \in Dates /\ window = NoValue

WindowIdle == today = NoValue /\ window = NoValue

Resolve ==
    /\ window = NoValue
    /\ window' = previous_month_window(today)
    /\ UNCHANGED today

MaxTokens == 3

\* Pieces of raw abstracts: markup, escaped markup, entities, text.
CleanTokens ==
    { <<"<">>, <<">">>, <<"p">>, <<" ">>,
      <<"&", "a", "m", "p", ";">>, <<"&", "l", "t", ";">>, <<"&", "g", "t", ";">>,
      <<"a", "m", "p", ";">> }

RECURSIVE Concat(_)
Concat(ss) == IF ss = <<>> THEN <<>> ELSE Head(ss) \o Concat(Tail(ss))

CleanInit ==
    /\ raw \in {Concat(ts) : ts \in SeqsUpTo(CleanTokens, MaxTokens)}
    /\ once = None
    /\ twice = None

CleanIdle == raw = None /\ once = None /\ twice = None

\* clean_abstract(raw)
Clean ==
    /\ once = None
    /\ once' = CleanAbstract(raw)
    /\ UNCHANGED <<raw, twice>>

\* clean_abstract on the result of the first pass
CleanAgain ==
    /\ once # None
    /\ twice = None
    /\ twice' = CleanAbstract(once)
    /\ UNCHANGED <<raw, once>>

MaxKeywords == 3

\* Keywords: empty, plain, case variants, surrounded by whitespace, a phrase.
KeywordPool ==
    { <<>>, <<"a">>, <<"A">>, <<"b">>, <<" ", "a">>, <<"a", "b">> }

AbstractPool ==
    { <<>>, <<"a">>, <<"b">>, <<"B">>, <<"a", "b">>, <<"a", " ", "b">>, <<"b", "a">> }

TagsInit ==
    /\ keywords \in SeqsUpTo(KeywordPool, MaxKeywords)
    /\ whole_words \in BOOLEAN
    /\ abstract \in AbstractPool
    /\ tags = None

TagsIdle ==
    /\ keywords = <<>>
    /\ whole_words = FALSE
    /\ abstract = <<>>
    /\ tags = None

\* main's steps 2 and 3 for one abstract: the same list goes to both calls.
Tag ==
    /\ tags = None
    /\ tags' = tags_from_abstract(abstract,
                                  build_keyword_patterns(keywords, whole_words),
                                  keywords)
    /\ UNCHANGED <<keywords, whole_words, abstract>>

\* Field values of an item as Crossref may deliver them: well formed,
\* absent, null, empty or incomplete.
TitleValues == {JAbsent, JNull, JList(<<>>), JList(<<JStr(<<"t">>)>>)}

AbstractValues == {JAbsent, JNull, JStr(<<>>), JStr(<<"<", "p", ">", "a", "<", "/", "p", ">">>)}

AuthorValues ==
    { JAbsent, JNull, JList(<<>>),
      JList(<<AuthorFull>>),
      JList(<<AuthorFull, Author(JAbsent, JStr(<<"b">>), JAbsent, JAbsent, JAbsent)>>),
      JList(<<Author(JNull, JStr(<<"b">>), JAbsent, JAbsent, JAbsent)>>),
      JList(<<Author(JAbsent, JAbsent, JStr(<<"a", " ">>), JAbsent, JAbsent)>>),
      JList(<<Author(JAbsent, JAbsent, JNull, JStr(<<"a">>), JAbsent)>>),
      JList(<<Author(JAbsent, JAbsent, JAbsent, JAbsent, JStr(<<"a">>))>>),
      JList(<<Author(JAbsent, JAbsent, JAbsent, JAbsent, JAbsent)>>) }

OnlineValues ==
    { JAbsent, JNull, DateParts(JAbsent),
      DateParts(JList(<<IntList(<<2025, 12, 15>>)>>)) }

PrintValues == {JAbsent, DateParts(JList(<<IntList(<<2025, 11>>)>>))}

IssuedValues ==
    { JAbsent, DateParts(JNull), DateParts(JList(<<>>)),
      DateParts(JList(<<JList(<<>>)>>)),
      DateParts(JList(<<JList(<<JNull>>)>>)),
      DateParts(JList(<<IntList(<<2025>>)>>)),
      DateParts(JList(<<JList(<<JInt(2025), JNull>>)>>)) }

DateTime(v) == JDict([k \in {"date-time"} |-> v])

CreatedValues ==
    { JAbsent, JNull, DateTime(JAbsent), DateTime(JNull),
      DateTime(JStr(<<"2", "0", "2", "5", "-", "1", "2", "-", "0", "2", "T", "0", "9", "Z">>)) }

ItemInit ==
    /\ item \in {Item(t, a, JStr(<<"1">>), au, on, pr, is, cr) :
                    t \in TitleValues, a \in AbstractValues, au \in AuthorValues,
                    on \in OnlineValues, pr \in PrintValues, is \in IssuedValues,
                    cr \in CreatedValues}
    /\ record = NoValue

ItemIdle == item = NoValue /\ record = NoValue

\* one pass of the body of "for it in items"
Normalize ==
    /\ record = NoValue
    /\ record' = NormalizeItem(item)
    /\ UNCHANGED item

---------------------------------------------------------------------------
(* Specifications *)

\* A run of main.
Init == MainInit /\ today \in MainDates /\ window = NoValue
            /\ FetchIdle /\ CleanIdle /\ TagsIdle /\ ItemIdle

notMain == <<fetchVars, cleanVars, tagVars, itemVars>>

Next ==
    \/ Start /\ UNCHANGED notMain
    \/ \E payload \in MainPayloads : RespPage(payload) /\ UNCHANGED notMain
    \/ \E payload \in MainPayloads : RespEmpty(payload) /\ UNCHANGED notMain
    \/ \E status \in Statuses : RespAgain(status) /\ UNCHANGED notMain
    \/ \E status \in Statuses : RespRaise(status) /\ UNCHANGED notMain
    \/ RequestError /\ UNCHANGED notMain

Spec == Init /\ [][Next]_vars

\* One call of fetch_crossref_page.
InitFetch == FetchInit /\ MainIdle /\ WindowIdle /\ CleanIdle /\ TagsIdle /\ ItemIdle

notFetch == <<mainVars, windowVars, cleanVars, tagVars, itemVars>>

NextFetch ==
    \/ \E payload \in Payloads : FetchReturn(payload) /\ UNCHANGED notFetch
    \/ \E status \in Statuses : FetchAgain(status) /\ UNCHANGED notFetch
    \/ \E status \in Statuses : FetchRaise(status) /\ UNCHANGED notFetch
    \/ FetchRequestError /\ UNCHANGED notFetch

SpecFetch == InitFetch /\ [][NextFetch]_vars

\* previous_month_window on any date.
InitWindow == WindowInit /\ MainIdle /\ FetchIdle /\ CleanIdle /\ TagsIdle /\ ItemIdle

NextWindow == Resolve /\ UNCHANGED <<mainVars, fetchVars, cleanVars, tagVars, itemVars>>

SpecWindow == InitWindow /\ [][NextWindow]_vars

\* clean_abstract, applied twice.
InitClean == CleanInit /\ MainIdle /\ FetchIdle /\ WindowIdle /\ TagsIdle /\ ItemIdle

notClean == <<mainVars, fetchVars, windowVars, tagVars, itemVars>>

NextClean ==
    \/ Clean /\ UNCHANGED notClean
    \/ CleanAgain /\ UNCHANGED notClean

SpecClean == InitClean /\ [][NextClean]_vars

\* build_keyword_patterns and tags_from_abstract on any keyword list.
InitTags == TagsInit /\ MainIdle /\ FetchIdle /\ WindowIdle /\ CleanIdle /\ ItemIdle

NextTags == Tag /\ UNCHANGED <<mainVars, fetchVars, windowVars, cleanVars, itemVars>>

SpecTags == InitTags /\ [][NextTags]_vars

\* The normalisation of one item.
InitItem == ItemInit /\ MainIdle /\ FetchIdle /\ WindowIdle /\ CleanIdle /\ TagsIdle

NextItem == Normalize /\ UNCHANGED <<mainVars, fetchVars, windowVars, cleanVars, tagVars>>

SpecItem == InitItem /\ [][NextItem]_vars

---------------------------------------------------------------------------
(* Properties *)

\* The statuses the claims call retryable.
ClaimRetryable == {429, 502, 503, 504}

\* The first k responses of the call were all retryable.
FirstRetryable(k) ==
    /\ k <= Len(resps)
    /\ \A i \in 1..k : resps[i].status \in ClaimRetryable

\* The backoff slept before retry number i is BACKOFF_SECONDS * i, for k retries.
ScaledBackoff(k) == [i \in 1..k |-> BACKOFF_SECONDS * i]

\* C1: for every k < MAX_RETRIES, after k retryable responses the call is
\* still requesting, having slept BACKOFF_SECONDS * i before retry i; and if
\* response k+1 then has status 200, the call returns that response's payload
\* after exactly k+1 requests and those k sleeps.
C1_RetryThenSuccess ==
    \A k \in 0..(MAX_RETRIES - 1) :
        /\ (Len(resps) = k /\ FirstRetryable(k) /\ requests = k)
               => /\ fpc = "requesting"
                  /\ fattempt = k + 1
                  /\ sleeps = ScaledBackoff(k)
        /\ (Len(resps) = k + 1 /\ FirstRetryable(k) /\ resps[k + 1].status = 200)
               => /\ fpc = "returned"
                  /\ fresult = [kind |-> "return", payload |-> resps[k + 1].body]
                  /\ requests = k + 1
                  /\ sleeps = ScaledBackoff(k)

\* C1 witness: a call that returned a page on its last attempt, after
\* MAX_RETRIES - 1 retryable responses.
C1_Witness ==
    /\ fpc = "returned"
    /\ Len(resps) = MAX_RETRIES
    /\ FirstRetryable(MAX_RETRIES - 1)
    /\ resps[1].status # resps[2].status
    /\ fresult.payload = "page_a"

\* C2: a response whose status is neither 200 nor retryable is the last one
\* of the call: the call raises on it, with no further request.
C2_OtherStatusIsFatal ==
    \A i \in 1..Len(resps) :
        (resps[i].status # 200 /\ resps[i].status \notin ClaimRetryable)
            => /\ i = Len(resps)
               /\ fpc = "raised"
               /\ requests = i

\* C3: one call issues at most MAX_RETRIES requests, and after MAX_RETRIES
\* retryable responses it has raised the RuntimeError of the exhausted loop
\* and returned no payload.
C3_BoundedAttempts ==
    /\ requests <= MAX_RETRIES
    /\ Len(resps) <= MAX_RETRIES
    /\ (Len(resps) = MAX_RETRIES /\ FirstRetryable(MAX_RETRIES))
           => /\ fpc = "raised"
              /\ fresult.kind = "RuntimeError"
              /\ fresult.payload = None

\* C3 witness: a call that raised after MAX_RETRIES retryable responses.
C3_Witness ==
    /\ fpc = "raised"
    /\ requests = MAX_RETRIES
    /\ FirstRetryable(MAX_RETRIES)
    /\ Len(sleeps) = MAX_RETRIES

\* The items of the pages fetched so far, in page order and then item order.
FetchedItems == Concat([i \in 1..Len(fetched) |-> fetched[i].items])

\* C4: the pages are requested at offsets 0, ROWS_PER_PAGE, 2*ROWS_PER_PAGE,
\* ... in that order; no page is requested after one with no items; the
\* records are one per item of the pages before it, in page and item order;
\* and a run that ended well has fetched n non-empty pages and one empty page.
C4_Pagination ==
    /\ \A i \in 1..Len(fetched) : fetched[i].offset = (i - 1) * ROWS_PER_PAGE
    /\ \A i \in 1..(Len(fetched) - 1) : fetched[i].items # <<>>
    /\ pc = "requesting" => offset = Len(fetched) * ROWS_PER_PAGE
    /\ (Len(fetched) > 0 /\ fetched[Len(fetched)].items = <<>>) => pc = "done"
    /\ pc \in {"requesting", "done"}
           => /\ Len(records) = Len(FetchedItems)
              /\ \A j \in 1..Len(records) : records[j] = NormalizeItem(FetchedItems[j]).v
    /\ pc = "done"
           => /\ Len(fetched) >= 1
              /\ fetched[Len(fetched)].items = <<>>
              /\ printed = <<Len(records)>>

\* C4 witness: a run that ended after two non-empty pages and an empty one,
\* with records of different items.
C4_Witness ==
    /\ pc = "done"
    /\ Len(fetched) = 3
    /\ Len(records) >= 3
    /\ records[1] # records[2]

\* C5: a run that ended in an error has written no file, and a file is
\* written only by a run whose every page fetch succeeded and whose last
\* page had no items.
C5_NoFileOnFatalError ==
    /\ pc \in {"start", "requesting", "error"} => file = NoValue
    /\ file # NoValue
           => /\ pc = "done"
              /\ err = None
              /\ Len(fetched) >= 1
              /\ fetched[Len(fetched)].items = <<>>

\* C5 witness: the retry budget ran out on a later page, with records
\* already collected, and there is no file.
C5_Witness ==
    /\ pc = "error"
    /\ err = "RuntimeError"
    /\ offset > 0
    /\ Len(records) >= 2
    /\ file = NoValue

\* kw, as a configured keyword, matches the abstract under the matching mode.
KeywordMatches(kw) ==
    /\ kw # <<>>
    /\ Search([text |-> Strip(kw), whole |-> whole_words], abstract)

\* The first position of kw in the keyword list.
FirstPosition(kw) ==
    CHOOSE j \in 1..Len(keywords) :
        keywords[j] = kw /\ \A h \in 1..(j - 1) : keywords[h] # kw

\* C6: the tags are configured keywords, each of them matches the abstract,
\* every configured keyword that matches appears exactly once up to case,
\* and the tags are in the order of the keyword list.
C6_TagsOfMatchingKeywords ==
    tags # None
        => /\ \A i \in 1..Len(tags) : \E j \in 1..Len(keywords) : keywords[j] = tags[i]
           /\ \A i \in 1..Len(tags) : KeywordMatches(tags[i])
           /\ \A j \in 1..Len(keywords) :
                  KeywordMatches(keywords[j])
                      => Cardinality({i \in 1..Len(tags) :
                                          Lower(tags[i]) = Lower(keywords[j])}) = 1
           /\ \A i, h \in 1..Len(tags) :
                  i < h => FirstPosition(tags[i]) < FirstPosition(tags[h])

\* C7: when the first page has no items, the file holds the header row of
\* the seven columns and no data row, and the count printed is 0.
C7_EmptyResultHasHeader ==
    (pc = "done" /\ Len(fetched) = 1)
        => /\ file.header = <<"publication_date", "title", "abstract", "doi",
                              "url", "last_author", "tags">>
           /\ file.rows = <<>>
           /\ printed = <<0>>

\* A field value that is absent, null or empty.
IsEmptyValue(v) == v = JAbsent \/ ~Truthy(v)

\* C8: whatever title, abstract, author list or date fields are absent,
\* null, empty or incomplete, normalising the item raises nothing and yields
\* a record, with an empty value for a title, abstract or author list that
\* is absent, null or empty.
C8_MalformedFieldsNeverFatal ==
    record # NoValue
        => /\ record.ok
           /\ IsEmptyValue(item.d["title"]) => record.v.title = JStr(<<>>)
           /\ IsEmptyValue(item.d["abstract"]) => record.v.abstract = JStr(<<>>)
           /\ IsEmptyValue(item.d["author"]) => record.v.last_author = JStr(<<>>)

\* The month before the month of d, and the number of its days.
PrevMonthYear(d) == IF d.month = 1 THEN d.year - 1 ELSE d.year
PrevMonth(d) == IF d.month = 1 THEN 12 ELSE d.month - 1
LastDayOf(y, m) ==
    IF m \in {4, 6, 9, 11} THEN 30
    ELSE IF m # 2 THEN 31
    ELSE IF (y % 4 = 0 /\ y % 100 # 0) \/ y % 400 = 0 THEN 29
    ELSE 28

Digits == <<"0", "1", "2", "3", "4", "5", "6", "7", "8", "9">>

\* The number a string of digits writes, or -1.
RECURSIVE NumberOf(_)
NumberOf(s) ==
    IF s = <<>> \/ \E i \in 1..Len(s) : \A n \in 1..10 : Digits[n] # s[i]
    THEN -1
    ELSE LET last == (CHOOSE n \in 1..10 : Digits[n] = s[Len(s)]) - 1
         IN  IF Len(s) = 1 THEN last
             ELSE NumberOf(SubSeq(s, 1, Len(s) - 1)) * 10 + last

\* The window is the month before today's: day 1 to the last day.
WindowIsPrevMonth ==
    /\ window.ok
    /\ window.start = Date(PrevMonthYear(today), PrevMonth(today), 1)
    /\ window.end = Date(PrevMonthYear(today), PrevMonth(today),
                         LastDayOf(PrevMonthYear(today), PrevMonth(today)))

\* C9 as stated: for any date, the window is the month before, and the label
\* is the four digits of its year, "-", the two digits of its month.
C9_AnyDate ==
    window # NoValue
        => /\ WindowIsPrevMonth
           /\ Len(window.label) = 7
           /\ NumberOf(SubSeq(window.label, 1, 4)) = PrevMonthYear(today)
           /\ window.label[5] = "-"
           /\ NumberOf(SubSeq(window.label, 6, 7)) = PrevMonth(today)

\* C9 amended: for any date after January of year 1 the window is the month
\* before and the label is its year in decimal (four digits from year 1000
\* on), "-", the two digits of its month; in January of year 1 there is no
\* month before and the call raises OverflowError.
C9_AfterFirstMonth ==
    window # NoValue
        => IF today.year = 1 /\ today.month = 1
           THEN window = [ok |-> FALSE, exc |-> "OverflowError"]
           ELSE LET n == Len(window.label)
                IN  /\ WindowIsPrevMonth
                    /\ n >= 4
                    /\ window.label[1] # "0"
                    /\ NumberOf(SubSeq(window.label, 1, n - 3)) = PrevMonthYear(today)
                    /\ window.label[n - 2] = "-"
                    /\ NumberOf(SubSeq(window.label, n - 1, n)) = PrevMonth(today)
                    /\ PrevMonthYear(today) >= 1000 => n = 7

\* C9 witness: a run on 2024-01-07 resolved to December 2023.
C9_Witness ==
    /\ window # NoValue
    /\ today = Date(2024, 1, 7)
    /\ window.ok
    /\ window.start = Date(2023, 12, 1)
    /\ window.end = Date(2023, 12, 31)
    /\ window.label = <<"2", "0", "2", "3", "-", "1", "2">>

\* C10: a second cleaning pass changes nothing.
C10_Idempotent == twice # None => twice = once

===========================================================================
